---- MODULE Spec2Model ----
(***************************************************************************)
(* Model of btc_tracker.py: the session state (price_data, last_update,    *)
(* aws_api_url, aws_api_enabled), the tick update_data() with its two      *)
(* collaborators get_btc_price() and send_to_aws_api(), the button         *)
(* handlers that call them, and the metric derivation display_metrics().   *)
(* A run of the script (lines 249-370) is a sequence of steps, pc being    *)
(* the position of the run: the widgets and button handlers up to line 322 *)
(* are one step; with Auto-refresh ticked the run goes on with the         *)
(* update_data of line 327 as a second step; a step whose update_data      *)
(* POSTs to the sink is cut at the blocking requests.post. Every step      *)
(* holds at most one call of update_data.                                  *)
(***************************************************************************)
EXTENDS Integers, Sequences, FiniteSets

\* Number of successful fetches a run of the model may perform.
MaxTicks == 101

\* After a clear, the number of observations the model lets the history
\* be refilled with (runs with no clear are followed up to MaxTicks).
MaxRefill == 3

\* Rolling-window size of update_data (price_data[-100:]).
Capacity == 100

\* Python's None as the value of last_update (before the first update and
\* after a clear): a value no reading of the clock, all >= 0, is equal to.
None == -1

\* The values the sidebar text input can hold: empty, or an endpoint.
Urls == {"", "https://sink"}

\* What one requests.get of get_btc_price can end in: a 2xx body that
\* parses ("ok"), or a fault raised inside its try block.
GetOutcomes == {"ok", "neterr", "non2xx", "malformed", "unparseable"}

\* What requests.post followed by raise_for_status can end in.
PostOutcomes == {"ok", "neterr", "timeout", "non2xx"}

VARIABLES
    price_data,       \* st.session_state.price_data
    last_update,      \* st.session_state.last_update
    aws_api_url,      \* st.session_state.aws_api_url
    aws_api_enabled,  \* st.session_state.aws_api_enabled
    auto_refresh,     \* the Auto-refresh checkbox, line 309
    clock,            \* the reading datetime.now() returns next
    pc,               \* position of the run: "idle" between runs, "posting"
                      \* and "auto_posting" inside requests.post, "auto" at
                      \* line 322 with Auto-refresh ticked
    exchange,         \* <<ticker, book>>: how the two GETs of the last
                      \* update_data call of the run ended ("ok", "failed",
                      \* "not_called"), <<>> if there was no call yet
    sink,             \* how the POST of that call ended: "ok", "failed",
                      \* "in_flight", or "not_called"
    payload,          \* JSON body of the POST of that call, <<>> if none
    ret,              \* what that call returned, <<>> if none or not yet
    notice,           \* what the run has displayed: the button handler's
                      \* message, then that of the auto-refresh branch
    metrics,          \* what display_metrics did in the run
    fetched           \* history variable: the observations get_btc_price
                      \* returned since price_data was last set to []

vars == <<price_data, last_update, aws_api_url, aws_api_enabled, auto_refresh,
          clock, pc, exchange, sink, payload, ret, notice, metrics, fetched>>

Min(a, b) == IF a <= b THEN a ELSE b

\* Python's s[-n:] for n > 0.
LastN(s, n) == IF Len(s) <= n THEN s ELSE SubSeq(s, Len(s) - n + 1, Len(s))

\* Body of the ticker endpoint at instant t: last price, last size, volume.
\* The feed includes instants at which the last trade price is 0.
TickerBody(t) ==
    [price  |-> IF t % 5 = 3 THEN 0 ELSE 100 + t,
     size   |-> 1 + (t % 3),
     volume |-> 1000 + t]

\* Body of the level-1 order book at instant t; a side may be empty.
BookBody(t) ==
    [bids |-> IF t % 4 = 2 THEN <<>> ELSE << <<99 + t, 2 + (t % 2)>> >>,
     asks |-> IF t % 6 = 4 THEN <<>> ELSE << <<101 + t, 4 + (t % 2)>> >>]

\* get_btc_price, lines 75-90, once both bodies were received.
price_point(ticker_data, book_data, current_time) ==
    LET best_bid == IF book_data.bids # <<>> THEN book_data.bids[1] ELSE <<0, 0>>
        best_ask == IF book_data.asks # <<>> THEN book_data.asks[1] ELSE <<0, 0>>
    IN  [timestamp   |-> current_time,
         trade_price |-> ticker_data.price,
         trade_size  |-> ticker_data.size,
         bid_price   |-> best_bid[1],
         bid_size    |-> best_bid[2],
         ask_price   |-> best_ask[1],
         ask_size    |-> best_ask[2],
         volume      |-> ticker_data.volume]

\* The outcomes the book GET can have given the ticker's: it is issued only
\* after the ticker GET returned a body that parses as JSON (lines 65-71).
BookOutcomes(ticker) ==
    IF ticker \in {"ok", "unparseable"} THEN GetOutcomes ELSE {"not_called"}

\* What a run shows of one HTTP call: whether it went through or raised.
call_status(outcome) ==
    IF outcome \in {"ok", "not_called"} THEN outcome ELSE "failed"

\* Variant of fetch_ok that forgets the order-book call: a book failure no
\* longer fails the fetch.
fetch_ok_ticker_only(ticker, book) == ticker = "ok"

\* get_btc_price returns a price point only when nothing raised in its try
\* block, i.e. both calls succeeded and every float() parsed.
fetch_ok(ticker, book) == ticker = "ok" /\ book = "ok"

\* send_to_aws_api, line 28: the guard that returns False without a POST.
send_skipped(enabled, url) == ~enabled \/ url = ""

\* Variant of build_payload that puts the trade fields first.
build_payload_trade_first(pd) ==
    <<pd.trade_price, pd.trade_size, pd.bid_price, pd.bid_size,
      pd.ask_price, pd.ask_size>>

\* send_to_aws_api, lines 33-40: the POST body.
build_payload(pd) ==
    <<pd.bid_price, pd.bid_size, pd.ask_price, pd.ask_size,
      pd.trade_price, pd.trade_size>>

\* Variant of post_result without raise_for_status and the except clauses:
\* every POST counts as sent.
post_result_unchecked(outcome) == TRUE

\* send_to_aws_api, lines 50-58: True on a 2xx, False on anything raised.
post_result(outcome) == outcome = "ok"

\* Variant of trim that slices price_data[:100]: it keeps the oldest entries.
trim_keep_oldest(s) == IF Len(s) > Capacity THEN SubSeq(s, 1, Capacity) ELSE s

\* update_data, lines 110-111.
trim(s) == IF Len(s) > Capacity THEN LastN(s, Capacity) ELSE s

\* Variant of update_marker that leaves the marker unset.
update_marker_unset(new_data, now, d) == None

\* update_data, line 104: the marker is a second reading of the clock, taken
\* after the observation was assembled; the clock may have advanced by d.
update_marker(new_data, now, d) == now + d

\* Start/Update Data button handler, lines 297-306.
button_notice(data_success, aws_success, enabled) ==
    IF data_success
    THEN IF enabled
         THEN IF aws_success THEN "updated_and_sent" ELSE "aws_call_failed"
         ELSE "updated"
    ELSE "fetch_failed"

\* display_metrics, lines 176-219. Percentages are kept as exact fractions
\* <<numerator, denominator>>; a zero denominator is Python's
\* ZeroDivisionError, raised at line 188 or line 214.
display_metrics(pd) ==
    IF pd = <<>> THEN [status |-> "unavailable"]
    ELSE
      LET latest == pd[Len(pd)]
          previous == pd[Len(pd) - 1]
          price_change ==
              IF Len(pd) >= 2 THEN latest.trade_price - previous.trade_price
              ELSE 0
          spread == latest.ask_price - latest.bid_price
      IN  IF Len(pd) >= 2 /\ previous.trade_price = 0
          THEN [status |-> "ZeroDivisionError"]
          ELSE IF latest.trade_price = 0
          THEN [status |-> "ZeroDivisionError"]
          ELSE [status |-> "shown",
                price_change |-> price_change,
                price_change_pct |->
                    IF Len(pd) >= 2
                    THEN <<price_change * 100, previous.trade_price>>
                    ELSE <<0, 1>>,
                spread |-> spread,
                spread_pct |-> <<spread * 100, latest.trade_price>>]

\* The model follows a run with no clear up to MaxTicks fetches, and a
\* history refilled after a clear up to MaxRefill observations.
CanFetch ==
    /\ clock < MaxTicks
    /\ (Len(fetched) = clock \/ Len(fetched) < MaxRefill)

\* Auto-refresh branch, lines 333-337: what it adds to the page after the
\* metrics were displayed.
auto_notice(aws_success, enabled) ==
    IF enabled
    THEN IF aws_success THEN <<"auto_sent">> ELSE <<"auto_aws_call_failed">>
    ELSE <<>>

\* update_data when get_btc_price returns None (lines 94-96, 114): it
\* returns (False, False).
update_data_fails ==
    /\ \E ticker \in GetOutcomes :
        \E book \in BookOutcomes(ticker) :
            /\ ~fetch_ok(ticker, book)
            /\ exchange' = <<call_status(ticker), call_status(book)>>
    /\ sink' = "not_called"
    /\ payload' = <<>>
    /\ ret' = <<FALSE, FALSE>>
    /\ UNCHANGED <<price_data, last_update, clock, fetched>>

\* update_data when the fetch succeeds and send_to_aws_api returns at line
\* 29: append, last_update, send (False), trim, return (True, False).
update_data_skips ==
    /\ CanFetch
    /\ send_skipped(aws_api_enabled, aws_api_url)
    /\ \E ticker \in GetOutcomes :
        \E book \in BookOutcomes(ticker) :
            /\ fetch_ok(ticker, book)
            /\ exchange' = <<call_status(ticker), call_status(book)>>
    /\ \E d \in 0..1 :
        LET new_data == price_point(TickerBody(clock), BookBody(clock), clock)
        IN  /\ price_data' = trim(Append(price_data, new_data))
            /\ fetched' = Append(fetched, new_data)
            /\ last_update' = update_marker(new_data, clock, d)
    /\ clock' = clock + 1
    /\ sink' = "not_called"
    /\ payload' = <<>>
    /\ ret' = <<TRUE, FALSE>>

\* update_data when the fetch succeeds and send_to_aws_api passes line 28,
\* up to the call of requests.post: append, last_update, payload, POST.
update_data_posts ==
    /\ CanFetch
    /\ ~send_skipped(aws_api_enabled, aws_api_url)
    /\ \E ticker \in GetOutcomes :
        \E book \in BookOutcomes(ticker) :
            /\ fetch_ok(ticker, book)
            /\ exchange' = <<call_status(ticker), call_status(book)>>
    /\ \E d \in 0..1 :
        LET new_data == price_point(TickerBody(clock), BookBody(clock), clock)
        IN  /\ price_data' = Append(price_data, new_data)
            /\ fetched' = Append(fetched, new_data)
            /\ last_update' = update_marker(new_data, clock, d)
            /\ payload' = build_payload(new_data)
    /\ clock' = clock + 1
    /\ sink' = "in_flight"
    /\ ret' = <<>>

\* update_data from the return of requests.post: send_to_aws_api returns
\* (lines 50-58), update_data trims and returns (lines 110-113).
update_data_resumes ==
    /\ \E outcome \in PostOutcomes :
        /\ sink' = call_status(outcome)
        /\ ret' = <<TRUE, post_result(outcome)>>
    /\ price_data' = trim(price_data)
    /\ UNCHANGED <<last_update, clock, exchange, payload, fetched>>

\* Variant of clear_data that forgets line 314: last_update is kept.
clear_data_keeps_marker ==
    /\ price_data' = <<>>
    /\ fetched' = <<>>
    /\ UNCHANGED last_update

\* Clear Data button handler, lines 313-314.
clear_data ==
    /\ price_data' = <<>>
    /\ last_update' = None
    /\ fetched' = <<>>

\* A run in which update_data is not called by a button: nothing fetched,
\* nothing posted, nothing returned.
no_update ==
    /\ exchange' = <<>>
    /\ sink' = "not_called"
    /\ payload' = <<>>
    /\ ret' = <<>>

\* Lines 322 and 355-357, reached when the buttons have been handled: with
\* Auto-refresh ticked the run goes on to update_data at line 327, else it
\* ends in display_metrics.
end_of_controls(auto) ==
    IF auto
    THEN pc' = "auto" /\ metrics' = [status |-> "pending"]
    ELSE pc' = "idle" /\ metrics' = display_metrics(price_data')

Init ==
    /\ price_data = <<>>
    /\ last_update = None
    /\ aws_api_url = ""
    /\ aws_api_enabled = FALSE
    /\ auto_refresh = FALSE
    /\ clock = 0
    /\ pc = "idle"
    /\ exchange = <<>>
    /\ sink = "not_called"
    /\ payload = <<>>
    /\ ret = <<>>
    /\ notice = <<>>
    /\ metrics = [status |-> "unavailable"]
    /\ fetched = <<>>

\* Sidebar widgets, lines 255-272: a run started by a new widget value; no
\* button is pressed in it.
SetConfig ==
    /\ pc = "idle"
    /\ \E u \in Urls, e \in BOOLEAN :
        /\ <<u, e>> # <<aws_api_url, aws_api_enabled>>
        /\ aws_api_url' = u
        /\ aws_api_enabled' = e
    /\ no_update
    /\ notice' = <<>>
    /\ UNCHANGED <<price_data, last_update, auto_refresh, clock, fetched>>
    /\ end_of_controls(auto_refresh)

\* Auto-refresh checkbox, line 309: a run started by ticking or unticking it.
ToggleAutoRefresh ==
    /\ pc = "idle"
    /\ auto_refresh' = ~auto_refresh
    /\ no_update
    /\ notice' = <<>>
    /\ UNCHANGED <<price_data, last_update, aws_api_url, aws_api_enabled,
                   clock, fetched>>
    /\ end_of_controls(auto_refresh')

\* st.rerun(), line 353: with Auto-refresh ticked, a run that reached line
\* 353 is followed by a run in which nothing was pressed. A run in which
\* display_metrics raised did not reach it.
Rerun ==
    /\ pc = "idle"
    /\ auto_refresh
    /\ metrics.status # "ZeroDivisionError"
    /\ no_update
    /\ notice' = <<>>
    /\ UNCHANGED <<price_data, last_update, aws_api_url, aws_api_enabled,
                   auto_refresh, clock, fetched>>
    /\ end_of_controls(auto_refresh)

\* Start/Update Data, lines 295-306, whose update_data returns (False, False).
UpdateFetchFails ==
    /\ pc = "idle"
    /\ update_data_fails
    /\ notice' = <<button_notice(FALSE, FALSE, aws_api_enabled)>>
    /\ end_of_controls(auto_refresh)
    /\ UNCHANGED <<aws_api_url, aws_api_enabled, auto_refresh>>

\* Start/Update Data whose update_data succeeds without a POST.
UpdateSkipSend ==
    /\ pc = "idle"
    /\ update_data_skips
    /\ notice' = <<button_notice(TRUE, FALSE, aws_api_enabled)>>
    /\ end_of_controls(auto_refresh)
    /\ UNCHANGED <<aws_api_url, aws_api_enabled, auto_refresh>>

\* Start/Update Data whose update_data issues the POST and waits for it.
UpdateIssuePost ==
    /\ pc = "idle"
    /\ update_data_posts
    /\ notice' = <<>>
    /\ metrics' = [status |-> "pending"]
    /\ pc' = "posting"
    /\ UNCHANGED <<aws_api_url, aws_api_enabled, auto_refresh>>

\* The POST of Start/Update Data returns or raises; update_data returns and
\* the handler reports (lines 297-304).
PostReturns ==
    /\ pc = "posting"
    /\ update_data_resumes
    /\ notice' = <<button_notice(TRUE, ret'[2], aws_api_enabled)>>
    /\ end_of_controls(auto_refresh)
    /\ UNCHANGED <<aws_api_url, aws_api_enabled, auto_refresh>>

\* Clear Data button handler, lines 312-315.
ClearData ==
    /\ pc = "idle"
    /\ clear_data
    /\ no_update
    /\ notice' = <<"cleared">>
    /\ end_of_controls(auto_refresh)
    /\ UNCHANGED <<aws_api_url, aws_api_enabled, auto_refresh, clock>>

\* Auto-refresh branch, lines 327-328 and 352-353, whose update_data returns
\* (False, False): display_metrics is not called.
AutoFetchFails ==
    /\ pc = "auto"
    /\ update_data_fails
    /\ metrics' = [status |-> "not_called"]
    /\ pc' = "idle"
    /\ UNCHANGED <<aws_api_url, aws_api_enabled, auto_refresh, notice>>

\* Auto-refresh branch, lines 327-337, whose update_data succeeds without a
\* POST: display_metrics, then the AWS status unless display_metrics raised.
AutoSkipSend ==
    /\ pc = "auto"
    /\ update_data_skips
    /\ metrics' = display_metrics(price_data')
    /\ notice' = IF metrics'.status = "ZeroDivisionError" THEN notice
                 ELSE notice \o auto_notice(FALSE, aws_api_enabled)
    /\ pc' = "idle"
    /\ UNCHANGED <<aws_api_url, aws_api_enabled, auto_refresh>>

\* Auto-refresh branch whose update_data issues the POST and waits for it.
AutoIssuePost ==
    /\ pc = "auto"
    /\ update_data_posts
    /\ pc' = "auto_posting"
    /\ UNCHANGED <<aws_api_url, aws_api_enabled, auto_refresh, notice, metrics>>

\* The POST of the auto-refresh branch returns or raises; update_data
\* returns, then lines 328-337.
AutoPostReturns ==
    /\ pc = "auto_posting"
    /\ update_data_resumes
    /\ metrics' = display_metrics(price_data')
    /\ notice' = IF metrics'.status = "ZeroDivisionError" THEN notice
                 ELSE notice \o auto_notice(ret'[2], aws_api_enabled)
    /\ pc' = "idle"
    /\ UNCHANGED <<aws_api_url, aws_api_enabled, auto_refresh>>

Next ==
    \/ SetConfig
    \/ ToggleAutoRefresh
    \/ Rerun
    \/ UpdateFetchFails
    \/ UpdateSkipSend
    \/ UpdateIssuePost
    \/ PostReturns
    \/ ClearData
    \/ AutoFetchFails
    \/ AutoSkipSend
    \/ AutoIssuePost
    \/ AutoPostReturns

Spec == Init /\ [][Next]_vars

(***************************************************************************)
(* Properties                                                              *)
(***************************************************************************)

\* No call of update_data is in progress: the run is between two steps.
Settled == pc \in {"idle", "auto"}

\* The last call of update_data has returned and its fetch had succeeded.
TickReturned == Settled /\ ret # <<>> /\ ret[1]

\* The POST of the last run failed: network error, timeout or non-2xx.
ForwardFailed == sink = "failed"

\* C1: after N successful ticks since the history was last empty, once the
\* tick has returned, price_data has length min(N, 100) and holds exactly the
\* last min(N, 100) fetched observations in the order they were appended (so
\* a tick at capacity drops the single oldest entry and keeps the order of
\* the rest).
C1_RollingWindow ==
    Settled =>
        /\ Len(price_data) = Min(Len(fetched), Capacity)
        /\ \A i \in 1..Len(price_data) :
               price_data[i] = fetched[Len(fetched) - Len(price_data) + i]

\* C1 witness: a tick made at capacity has returned, the oldest of the 101
\* fetched observations is gone.
C1_Witness ==
    /\ Settled
    /\ Len(fetched) = Capacity + 1
    /\ Len(price_data) = Capacity
    /\ price_data[1] = fetched[2]

\* C2 (as claimed): price_data never holds more than 100 entries, in any
\* reachable state, the state in which the POST to the sink is in flight
\* included.
C2_BoundInEveryState == Len(price_data) <= Capacity

\* C3: a Start/Update Data in which an exchange call fails returns
\* (False, False), issues no POST, and leaves price_data, last_update and the
\* forwarding configuration as they were.
C3_FetchFailureLeavesState ==
    [][(exchange' # <<>> /\ exchange' # <<"ok", "ok">>) =>
          /\ ret' = <<FALSE, FALSE>>
          /\ sink' = "not_called"
          /\ payload' = <<>>
          /\ price_data' = price_data
          /\ last_update' = last_update
          /\ aws_api_url' = aws_api_url
          /\ aws_api_enabled' = aws_api_enabled]_vars

\* C3 witness: the order-book call failed after the ticker call succeeded,
\* on a history that holds observations.
C3_Witness ==
    /\ exchange = <<"ok", "failed">>
    /\ ret = <<FALSE, FALSE>>
    /\ Len(price_data) >= 2
    /\ last_update # None

\* C4: when the POST fails the tick still returns (True, False), the fetched
\* observation is the last element of price_data, eviction has been applied,
\* and last_update is set; price_data is what it is after any other
\* successful tick, the last min(N, 100) fetched observations.
C4_ForwardFailureKeepsTick ==
    (Settled /\ ForwardFailed) =>
        /\ ret = <<TRUE, FALSE>>
        /\ price_data # <<>>
        /\ price_data[Len(price_data)] = fetched[Len(fetched)]
        /\ price_data = LastN(fetched, Capacity)
        /\ last_update # None

\* C4 witness: the POST of a tick made at capacity failed.
C4_Witness ==
    /\ pc = "idle"
    /\ sink = "failed"
    /\ Len(fetched) > Capacity

\* C5 (as claimed): when the send is skipped, because forwarding is disabled
\* or the endpoint is empty, no POST is issued and the run does not report
\* a failed AWS call.
C5_SkipIsNotFailure ==
    (TickReturned /\ send_skipped(aws_api_enabled, aws_api_url)) =>
        /\ sink = "not_called"
        /\ payload = <<>>
        /\ \A i \in 1..Len(notice) :
               notice[i] \notin {"aws_call_failed", "auto_aws_call_failed"}

\* C6: whenever a run has issued a POST, the observation fetched in that run
\* is already the last element of price_data, and the body is the six values
\* bid price, bid size, ask price, ask size, trade price, trade size of that
\* observation, in that order.
C6_PayloadOfThisTick ==
    payload # <<>> =>
        /\ price_data # <<>>
        /\ price_data[Len(price_data)] = fetched[Len(fetched)]
        /\ LET o == price_data[Len(price_data)]
           IN  /\ Len(payload) = 6
               /\ payload[1] = o.bid_price
               /\ payload[2] = o.bid_size
               /\ payload[3] = o.ask_price
               /\ payload[4] = o.ask_size
               /\ payload[5] = o.trade_price
               /\ payload[6] = o.trade_size

\* C6 witness: a POST is in flight for a tick that follows an earlier one,
\* and its body is not what the earlier observation would give.
C6_Witness ==
    /\ pc = "posting"
    /\ Len(price_data) >= 2
    /\ payload # build_payload(price_data[Len(price_data) - 1])

\* C7 (as claimed): after a successful tick last_update is the timestamp of
\* the observation the tick appended.
C7_MarkerIsCaptureTime ==
    TickReturned => last_update = price_data[Len(price_data)].timestamp

\* C8 (as claimed): display_metrics never raises; with a trade price of 0 in
\* the previous or the latest observation it still shows metrics.
C8_MetricsNeverRaise == metrics.status # "ZeroDivisionError"

\* C9: Clear Data empties price_data, sets last_update to None, leaves the
\* forwarding configuration as it was, and calls neither exchange nor sink.
C9_ClearEffect ==
    [][(pc = "idle" /\ notice' = <<"cleared">>) =>
          /\ price_data' = <<>>
          /\ last_update' = None
          /\ aws_api_url' = aws_api_url
          /\ aws_api_enabled' = aws_api_enabled
          /\ exchange' = <<>>
          /\ sink' = "not_called"
          /\ payload' = <<>>]_vars

\* C9 witness: a clear was made after observations had been fetched, with
\* forwarding configured.
C9_Witness ==
    /\ notice = <<"cleared">>
    /\ price_data = <<>>
    /\ clock >= 2
    /\ aws_api_enabled
    /\ aws_api_url # ""

\* C10: whenever no update_data is in progress, last_update is None exactly
\* when price_data is empty.
C10_MarkerIffNonEmpty ==
    Settled => (last_update = None <=> price_data = <<>>)

\* C10 witness: a fetch failed on a history that had been filled and then
\* cleared.
C10_Witness ==
    /\ pc = "idle"
    /\ ret = <<FALSE, FALSE>>
    /\ clock >= 2
    /\ price_data = <<>>

====
